---- MODULE Spec2Model ----
(***************************************************************************)
(* Social Video AI Transcriber: the App component (pipeline controller),   *)
(* the Apify scan services and the Gemini transcription service.           *)
(*                                                                         *)
(* One JavaScript thread runs the handlers.  An async handler runs         *)
(* atomically from one `await` to the next, so every action below is the   *)
(* code of one handler between two awaits; the awaited external call       *)
(* (backend request, audio download, AI call, timer) answers in a later    *)
(* action, with an outcome drawn from the outcomes the call can have.      *)
(***************************************************************************)
EXTENDS Integers, Sequences, FiniteSets, TLC

\* ------------------------------------------------------------------ bounds
MaxVideos == 2        \* longest raw result set a scan returns
MaxScans == 1         \* scans started in one behaviour
MaxRuns == 2          \* main-loop runs started in one behaviour
MaxRetries == 1       \* per-item retries started in one behaviour

\* ------------------------------------------------------- JavaScript values
Null == "<undefined>"                      \* undefined / null / absent key
Truthy(x) == x \notin {Null, ""}
Coalesce(a, b) == IF a = Null THEN b ELSE a      \* a ?? b
OrElse(a, b) == IF Truthy(a) THEN a ELSE b       \* a || b

EmptyMap == [k \in {} |-> Null]                        \* {}
Get(m, k) == IF k \in DOMAIN m THEN m[k] ELSE Null     \* m[k]
Put(m, k, v) == [x \in DOMAIN m \cup {k} |-> IF x = k THEN v ELSE m[x]]  \* {...m, [k]: v}

\* optional properties carry their type with them; a property that is absent
\* from a raw item reads as undefined
Undefined == [t |-> "undefined"]
Num(n) == [t |-> "number", v |-> n]
Str(x) == [t |-> "string", v |-> x]
Bool(b) == [t |-> "boolean", v |-> b]
Prop(item, f) == IF f \in DOMAIN item THEN item[f] ELSE Undefined      \* item.f
PropOf(item, o, f) ==                                                  \* item.o?.f
    IF o \in DOMAIN item THEN Prop(item[o], f) ELSE Undefined
Nullish_KeepsLeft(a, b) == a                      \* variant: a, no default
Nullish(a, b) == IF a.t \in {"undefined", "null"} THEN b ELSE a        \* a ?? b
TruthyNumber(a) == a.t = "number" /\ a.v # 0

Last(s) == s[Len(s)]
Indices(s) == 1..Len(s)

\* --------------------------------------------------------- external values
Urls == {"a", "b"}                    \* video page URLs the backend reports
Mp3Inputs == {"", "m1"}               \* what the operator types in an audio field
Keys == {"", "k"}                     \* what the operator types in the AI key field
ApifyTokens == {"k"}                  \* what the operator types in the token field
Transcripts == {"t1"}                 \* response.text of a successful AI call

\* a text is a sequence of pieces; a search for a marker looks for the piece
Includes(text, marker) == \E n \in DOMAIN text : text[n] = marker

\* String.prototype.toLowerCase and the i flag of a regular expression
LowerCase(piece) ==
    CASE piece = "TikTok.com" -> "tiktok.com"
      [] piece = "FB.com" -> "fb.com"
      [] piece = "Quota" -> "quota"
      [] piece = "Api_Key_Invalid" -> "api_key_invalid"
      [] piece = "API_KEY_INVALID" -> "api_key_invalid"
      [] OTHER -> piece
ToLowerCase(text) == [n \in DOMAIN text |-> LowerCase(text[n])]

\* the text of a sequence of pieces
RECURSIVE Join(_)
Join(text) ==
    IF Len(text) = 0 THEN ""
    ELSE IF Len(text) = 1 THEN text[1]
    ELSE text[1] \o " " \o Join(Tail(text))

\* messages of the errors the AI call throws: one the catch block passes on as
\* it is, and some that carry the markers it looks for
AiFailures == { <<"503", "upstream">> }
MarkedAiFailures ==
    { <<"429", "too many requests">>, <<"Quota", "exceeded">>, <<"rate limit">>,
      <<"429", "API_KEY_INVALID">>, <<"quota", "400">>,
      <<"Api_Key_Invalid">>, <<"400", "bad request">> }

\* what the operator types in the channel field
ChannelUrls ==
    { <<>>, <<"TikTok.com", "@u">>, <<"facebook.com", "p">>, <<"FB.com", "p">>,
      <<"example.com">> }

\* raw items of the two actors, with and without id and URL; a result set may
\* repeat an item, and two Facebook items share a URL
TikTokItems ==
    { [id |-> "1", webVideoUrl |-> "a"], [id |-> Null, webVideoUrl |-> "b"],
      [id |-> Null, webVideoUrl |-> Null] }
FacebookItems ==
    { [video_id |-> "1", post_id |-> Null, shareable_url |-> "a", permalink_url |-> Null],
      [video_id |-> Null, post_id |-> "2", shareable_url |-> Null, permalink_url |-> "a"],
      [video_id |-> Null, post_id |-> Null, shareable_url |-> "a", permalink_url |-> Null] }

RECURSIVE SeqsUpTo(_, _)
SeqsUpTo(S, n) ==
    IF n = 0 THEN {<<>>}
    ELSE LET shorter == SeqsUpTo(S, n - 1)
         IN shorter \cup {Append(s, x) : s \in {t \in shorter : Len(t) = n - 1}, x \in S}

\* ------------------------------------------------------------ the messages
MsgDownload == "Khong the tai tep am thanh."
MsgKeyRequired == "Google AI API Key is required."
MsgNoTranscript == <<"Gemini", "khong tra ve loi thoai.">>
MsgQuota == "Da dat gioi han quota cua Google AI."
MsgInvalidKey == "Google AI API Key duoc cung cap khong hop le."
MsgUnsupported == "URL khong duoc ho tro."
MsgNoVideos == "Apify khong tim thay video nao."
MsgNoPosts == "Apify scraper ran successfully, but no video posts were found."
MsgApify == "Apify API Error"
TextDownloading == "Dang tai MP3..."
TextTranscribing == "Dang phien am voi AI..."
TextNoMp3 == "Loi: Khong tim thay link MP3."
ErrorText(msg) == "Loi: " \o msg

Status(kind, n, of, msg) == [kind |-> kind, n |-> n, of |-> of, msg |-> msg]
StatusReady == Status("ready", 0, 0, "")

VARIABLES
    step, googleApiKey, apifyToken, channelUrl, isProcessing, status,
    videos, mp3Links, transcriptStates, transcriptCache, retryingIds,
    stopRequest,
    scan,               \* the handleScan call in flight: the request it awaits
    loop,               \* the handleTranscribe call in flight: its locals
    retries,            \* the handleRetry calls in flight
    random,             \* Math.random() draws so far
    nScans, nRuns, nRetries,
    log,                \* what the main-loop run did, in order; kept until the
                        \* operator's next go back, reset or retry
    pre                 \* per-video states and cache when that run started, and,
                        \* until its first download answers, the stop flag it found

vars == <<step, googleApiKey, apifyToken, channelUrl, isProcessing, status,
          videos, mp3Links, transcriptStates, transcriptCache, retryingIds,
          stopRequest, scan, loop, retries, random, nScans, nRuns, nRetries,
          log, pre>>

\* the locals and the captured values of a handleTranscribe call; i counts from 1
LoopIdle ==
    [pc |-> "idle", videosToProcess |-> <<>>, i |-> 0, successCount |-> 0,
     mp3Links |-> EmptyMap, googleApiKey |-> ""]

NoRun == [states |-> EmptyMap, cache |-> EmptyMap, videosToProcess |-> <<>>,
          stop |-> FALSE]

Init ==
    /\ step = "scan"
    /\ googleApiKey = ""
    /\ apifyToken = ""
    /\ channelUrl = <<>>
    /\ isProcessing = FALSE
    /\ status = StatusReady
    /\ videos = <<>>
    /\ mp3Links = EmptyMap
    /\ transcriptStates = EmptyMap
    /\ transcriptCache = EmptyMap
    /\ retryingIds = {}
    /\ stopRequest = FALSE
    /\ scan = "idle"
    /\ loop = LoopIdle
    /\ retries = {}
    /\ random = 0
    /\ nScans = 0
    /\ nRuns = 0
    /\ nRetries = 0
    /\ log = <<>>
    /\ pre = NoRun

\* ------------------------------------------------------------ apifyService
\* Date.prototype.toISOString of a time in milliseconds, and the clock reading
\* a Facebook item without a creation time gets
toISOString(ms) == "T" \o ToString(ms) \o "Z"
DateNow == 7000

\* nth is the Math.random() draw this item gets if it needs one
mapTikTokItemToSocialVideo(item, nth) ==
    [id |-> Coalesce(item.id,
                Coalesce(item.webVideoUrl, "fallback-" \o ToString(nth))),
     webVideoUrl |-> Coalesce(item.webVideoUrl, ""),
     text |-> Nullish(Prop(item, "text"), Str("")),
     createTime |-> Nullish(Prop(item, "createTime"), Num(0)),
     createTimeISO |-> Nullish(Prop(item, "createTimeISO"), Str(toISOString(0))),
     authorMeta |->
        [name |-> Nullish(PropOf(item, "authorMeta", "name"), Str("Unknown")),
         nickName |-> Nullish(PropOf(item, "authorMeta", "nickName"),
                          Nullish(PropOf(item, "authorMeta", "name"), Str("Unknown"))),
         avatar |-> Nullish(PropOf(item, "authorMeta", "avatar"), Str(""))],
     diggCount |-> Nullish(Prop(item, "diggCount"), Num(0)),
     commentCount |-> Nullish(Prop(item, "commentCount"), Num(0)),
     shareCount |-> Nullish(Prop(item, "shareCount"), Num(0)),
     playCount |-> Nullish(Prop(item, "playCount"), Num(0)),
     videoMeta |->
        [duration |-> Nullish(PropOf(item, "videoMeta", "duration"), Num(0)),
         height |-> Nullish(PropOf(item, "videoMeta", "height"), Num(0)),
         width |-> Nullish(PropOf(item, "videoMeta", "width"), Num(0))],
     musicMeta |->
        [musicName |-> Nullish(PropOf(item, "musicMeta", "musicName"), Str("N/A")),
         musicAuthor |-> Nullish(PropOf(item, "musicMeta", "musicAuthor"), Str("N/A")),
         musicOriginal |->
            Nullish(PropOf(item, "musicMeta", "musicOriginal"), Bool(FALSE))]]

mapFacebookItemToSocialVideo(item) ==
    LET createTime == IF TruthyNumber(Prop(item, "creation_time"))
                      THEN item.creation_time.v * 1000 ELSE DateNow
        postUrl == OrElse(item.shareable_url, OrElse(item.permalink_url, ""))
    IN [id |-> Coalesce(item.video_id, Coalesce(item.post_id, postUrl)),
        webVideoUrl |-> postUrl,
        text |-> Nullish(Prop(item, "message"), Str("")),
        createTime |-> Num(createTime),
        createTimeISO |-> Str(toISOString(createTime)),
        authorMeta |->
           [name |-> Nullish(Prop(item, "video_owner_name"), Str("Unknown")),
            nickName |-> Nullish(Prop(item, "video_owner_name"), Str("Unknown")),
            avatar |-> Nullish(Prop(item, "video_owner_profile_pic_url"), Str(""))],
        diggCount |-> Nullish(Prop(item, "reactions_count"), Num(0)),
        commentCount |-> Nullish(Prop(item, "comments_count"), Num(0)),
        shareCount |-> Nullish(Prop(item, "shares_count"), Num(0)),
        playCount |-> Nullish(Prop(item, "views_count"), Num(0)),
        videoMeta |->
           [duration |-> IF TruthyNumber(Prop(item, "playable_duration_in_ms"))
                         THEN Num(item.playable_duration_in_ms.v \div 1000)
                         ELSE Num(0),
            height |-> Nullish(Prop(item, "playback_video_height"), Num(0)),
            width |-> Nullish(Prop(item, "playback_video_width"), Num(0))],
        musicMeta |->
           [musicName |-> Nullish(Prop(item, "track_title"), Str("N/A")),
            musicAuthor |-> Nullish(Prop(item, "video_owner_name"), Str("N/A")),
            musicOriginal |->
               Nullish(Prop(item, "is_original_audio_on_facebook"), Bool(FALSE))]]

isFacebookVideoPost(item) ==
    /\ Truthy(item.video_id) \/ Truthy(item.post_id)
    /\ Truthy(item.shareable_url) \/ Truthy(item.permalink_url)

NeedsRandom(item) == item.id = Null /\ item.webVideoUrl = Null
DrawsUpTo(rawData, n) == Cardinality({m \in 1..n : NeedsRandom(rawData[m])})

\* the backend's answers: an error status, a body that is no array, an array
Responses(items) ==
    {[ok |-> FALSE, array |-> FALSE, data |-> <<>>],
     [ok |-> TRUE, array |-> FALSE, data |-> <<>>]}
    \cup {[ok |-> TRUE, array |-> TRUE, data |-> d] : d \in SeqsUpTo(items, MaxVideos)}

Resolved(vs) == [ok |-> TRUE, videos |-> vs, msg |-> ""]
Rejected(msg) == [ok |-> FALSE, videos |-> <<>>, msg |-> msg]

\* String.prototype.trim, split and startsWith on a text of pieces; " " and
\* "/" are pieces of their own
RECURSIVE TrimStart(_)
TrimStart(text) ==
    IF text # <<>> /\ Head(text) = " " THEN TrimStart(Tail(text)) ELSE text
RECURSIVE TrimEnd(_)
TrimEnd(text) ==
    IF text # <<>> /\ Last(text) = " " THEN TrimEnd(SubSeq(text, 1, Len(text) - 1))
    ELSE text
Trim(text) == TrimEnd(TrimStart(text))

RECURSIVE Split(_, _)
Split(text, separator) ==
    IF \A n \in Indices(text) : text[n] # separator THEN <<text>>
    ELSE LET at == CHOOSE n \in Indices(text) :
                      /\ text[n] = separator
                      /\ \A m \in 1..(n - 1) : text[m] # separator
         IN <<SubSeq(text, 1, at - 1)>>
            \o Split(SubSeq(text, at + 1, Len(text)), separator)

StartsWithAt(part) == part # <<>> /\ Head(part) = "@"

\* new URL(text): it throws unless the text, spaces aside, begins with a scheme;
\* the pathname is what follows the host
ParsesAsUrl(text) == Trim(text) # <<>> /\ Head(Trim(text)) = "https://"
Pathname(text) == SubSeq(Trim(text), 3, Len(Trim(text)))

\* the handle fetchTikTokData puts in the request
profileName(tiktokUrl) ==
    IF ParsesAsUrl(tiktokUrl)
    THEN LET pathParts == SelectSeq(Split(Pathname(tiktokUrl), "/"), StartsWithAt)
         IN IF Len(pathParts) > 0 THEN Tail(pathParts[1]) ELSE Trim(tiktokUrl)
    ELSE IF StartsWithAt(Trim(tiktokUrl)) THEN Tail(Trim(tiktokUrl))
    ELSE Trim(tiktokUrl)

\* fetchTikTokData from the backend's answer on
fetchTikTokData(response, drawn) ==
    IF ~response.ok THEN Rejected(MsgApify)
    ELSE IF ~response.array \/ Len(response.data) = 0 THEN Rejected(MsgNoVideos)
    ELSE Resolved([n \in Indices(response.data) |->
            mapTikTokItemToSocialVideo(response.data[n],
                                       drawn + DrawsUpTo(response.data, n))])


\* variant: no test of the filtered list, an empty one is returned
fetchFacebookData_ReturnsEmptyList(response) ==
    IF ~response.ok THEN Rejected(MsgApify)
    ELSE IF ~response.array \/ Len(response.data) = 0 THEN Rejected(MsgNoVideos)
    ELSE LET videoPosts == SelectSeq(response.data, isFacebookVideoPost)
         IN Resolved([n \in Indices(videoPosts) |->
                         mapFacebookItemToSocialVideo(videoPosts[n])])

\* fetchFacebookData from the backend's answer on
fetchFacebookData(response) ==
    IF ~response.ok THEN Rejected(MsgApify)
    ELSE IF ~response.array \/ Len(response.data) = 0 THEN Rejected(MsgNoVideos)
    ELSE LET videoPosts == SelectSeq(response.data, isFacebookVideoPost)
             mappedData == [n \in Indices(videoPosts) |->
                               mapFacebookItemToSocialVideo(videoPosts[n])]
         IN IF Len(mappedData) = 0 THEN Rejected(MsgNoPosts) ELSE Resolved(mappedData)

\* ------------------------------------------------------------ the operator
SetGoogleApiKey(k) ==
    /\ step = "scan"
    /\ googleApiKey' = k
    /\ UNCHANGED <<step, apifyToken, channelUrl, isProcessing, status, videos,
                   mp3Links, transcriptStates, transcriptCache, retryingIds,
                   stopRequest, scan, loop, retries, random, nScans, nRuns,
                   nRetries, log, pre>>

SetApifyToken(k) ==
    /\ step = "scan"
    /\ apifyToken' = k
    /\ UNCHANGED <<step, googleApiKey, channelUrl, isProcessing, status, videos,
                   mp3Links, transcriptStates, transcriptCache, retryingIds,
                   stopRequest, scan, loop, retries, random, nScans, nRuns,
                   nRetries, log, pre>>

SetChannelUrl(u) ==
    /\ step = "scan"
    /\ channelUrl' = u
    /\ UNCHANGED <<step, googleApiKey, apifyToken, isProcessing, status, videos,
                   mp3Links, transcriptStates, transcriptCache, retryingIds,
                   stopRequest, scan, loop, retries, random, nScans, nRuns,
                   nRetries, log, pre>>

handleMp3LinkChange(videoUrl, mp3Link) ==
    /\ step = "match"
    /\ \E n \in Indices(videos) : videos[n].webVideoUrl = videoUrl
    /\ mp3Link # OrElse(Get(mp3Links, videoUrl), "")    \* onChange: the field's value changed
    /\ mp3Links' = Put(mp3Links, videoUrl, mp3Link)
    /\ UNCHANGED <<step, googleApiKey, apifyToken, channelUrl, isProcessing,
                   status, videos, transcriptStates, transcriptCache,
                   retryingIds, stopRequest, scan, loop, retries, random,
                   nScans, nRuns, nRetries, log, pre>>

\* ---------------------------------------------------------------- handleScan
ScanFrame ==
    UNCHANGED <<googleApiKey, apifyToken, channelUrl, mp3Links, transcriptStates,
                transcriptCache, retryingIds, stopRequest, loop, retries,
                nRuns, nRetries, log, pre>>


\* variant: no else branch, a URL that is not Facebook's is taken for TikTok's
handleScan_DefaultsToTikTok ==
    /\ step = "scan"
    /\ Truthy(googleApiKey) /\ Truthy(apifyToken) /\ channelUrl # <<>>
    /\ ~isProcessing
    /\ nScans < MaxScans
    /\ nScans' = nScans + 1
    /\ videos' = <<>>
    /\ IF \/ Includes(ToLowerCase(channelUrl), "facebook.com")
          \/ Includes(ToLowerCase(channelUrl), "fb.com")
       THEN /\ scan' = "facebook"
            /\ status' = Status("scanning", 0, 0, "Facebook")
       ELSE /\ scan' = "tiktok"
            /\ status' = Status("scanning", 0, 0, "TikTok")
    /\ isProcessing' = TRUE
    /\ UNCHANGED <<step, random>>
    /\ ScanFrame

\* the click, up to the first await
handleScan ==
    /\ step = "scan"
    /\ Truthy(googleApiKey) /\ Truthy(apifyToken) /\ channelUrl # <<>>
    /\ ~isProcessing
    /\ nScans < MaxScans
    /\ nScans' = nScans + 1
    /\ videos' = <<>>
    /\ IF Includes(ToLowerCase(channelUrl), "tiktok.com")
       THEN /\ scan' = "tiktok"
            /\ status' = Status("scanning", 0, 0, "TikTok")
            /\ isProcessing' = TRUE
       ELSE IF \/ Includes(ToLowerCase(channelUrl), "facebook.com")
               \/ Includes(ToLowerCase(channelUrl), "fb.com")
       THEN /\ scan' = "facebook"
            /\ status' = Status("scanning", 0, 0, "Facebook")
            /\ isProcessing' = TRUE
       ELSE /\ scan' = "idle"
            /\ status' = Status("scanError", 0, 0, MsgUnsupported)
            /\ isProcessing' = FALSE
    /\ UNCHANGED <<step, random>>
    /\ ScanFrame


\* variant: setStep('match') after the try statement, reached on failure too
ScanReturn_AlwaysAdvances(response) ==
    /\ scan # "idle"
    /\ LET result == IF scan = "tiktok" THEN fetchTikTokData(response, random)
                     ELSE fetchFacebookData(response)
       IN /\ IF result.ok
             THEN /\ videos' = result.videos
                  /\ status' = Status("scanned", Len(result.videos), 0, "")
             ELSE /\ status' = Status("scanError", 0, 0, result.msg)
                  /\ UNCHANGED videos
          /\ random' = IF scan = "tiktok" /\ response.ok /\ response.array
                       THEN random + DrawsUpTo(response.data, Len(response.data))
                       ELSE random
    /\ step' = "match"
    /\ isProcessing' = FALSE
    /\ scan' = "idle"
    /\ UNCHANGED nScans
    /\ ScanFrame


\* variant: a successful scan starts the matching afresh
ScanReturn_ClearsAssignments(response) ==
    /\ scan # "idle"
    /\ LET result == IF scan = "tiktok" THEN fetchTikTokData(response, random)
                     ELSE fetchFacebookData(response)
       IN /\ IF result.ok
             THEN /\ videos' = result.videos
                  /\ status' = Status("scanned", Len(result.videos), 0, "")
                  /\ step' = "match"
                  /\ mp3Links' = EmptyMap
             ELSE /\ status' = Status("scanError", 0, 0, result.msg)
                  /\ UNCHANGED <<videos, step, mp3Links>>
          /\ random' = IF scan = "tiktok" /\ response.ok /\ response.array
                       THEN random + DrawsUpTo(response.data, Len(response.data))
                       ELSE random
    /\ isProcessing' = FALSE
    /\ scan' = "idle"
    /\ UNCHANGED <<nScans, googleApiKey, apifyToken, channelUrl, transcriptStates,
                   transcriptCache, retryingIds, stopRequest, loop, retries,
                   nRuns, nRetries, log, pre>>

\* the backend answers; the rest of handleScan
ScanReturn(response) ==
    /\ scan # "idle"
    /\ LET result == IF scan = "tiktok" THEN fetchTikTokData(response, random)
                     ELSE fetchFacebookData(response)
       IN /\ IF result.ok
             THEN /\ videos' = result.videos
                  /\ status' = Status("scanned", Len(result.videos), 0, "")
                  /\ step' = "match"
             ELSE /\ status' = Status("scanError", 0, 0, result.msg)
                  /\ UNCHANGED <<videos, step>>
          /\ random' = IF scan = "tiktok" /\ response.ok /\ response.array
                       THEN random + DrawsUpTo(response.data, Len(response.data))
                       ELSE random
    /\ isProcessing' = FALSE
    /\ scan' = "idle"
    /\ UNCHANGED nScans
    /\ ScanFrame

\* ------------------------------------------------------------ geminiService
\* what ai.models.generateContent does: returns a response, or throws
AiOutcomes(failures) ==
    {[threw |-> FALSE, text |-> t, message |-> <<>>] : t \in {""} \cup Transcripts}
    \cup {[threw |-> TRUE, text |-> "", message |-> m] : m \in failures}

Transcribed(t) == [ok |-> TRUE, text |-> t]
Failed(msg) == [ok |-> FALSE, text |-> msg]

\* variant: the credential is not looked at before the call
RejectsBeforeCall_Never(key) == FALSE

\* the check before the client is built: no call is made without a key
RejectsBeforeCall(key) == ~Truthy(key)

\* /rate limit|quota/i.test(errorMessage) and /API_KEY_INVALID/i.test(errorMessage)
MatchesQuota(errorMessage) ==
    \/ Includes(ToLowerCase(errorMessage), "rate limit")
    \/ Includes(ToLowerCase(errorMessage), "quota")
\* variant: the invalid-key test without the i flag
MatchesInvalidKey_CaseSensitive(errorMessage) == Includes(errorMessage, "API_KEY_INVALID")

MatchesInvalidKey(errorMessage) == Includes(ToLowerCase(errorMessage), "api_key_invalid")

\* variant: the invalid-key test comes first
Rethrown_InvalidKeyFirst(errorMessage) ==
    IF MatchesInvalidKey(errorMessage) \/ Includes(errorMessage, "400")
    THEN Failed(MsgInvalidKey)
    ELSE IF Includes(errorMessage, "429") \/ MatchesQuota(errorMessage)
    THEN Failed(MsgQuota)
    ELSE Failed(Join(errorMessage))

\* the catch block: the error it throws for the error it caught
Rethrown(errorMessage) ==
    IF Includes(errorMessage, "429") \/ MatchesQuota(errorMessage)
    THEN Failed(MsgQuota)
    ELSE IF MatchesInvalidKey(errorMessage) \/ Includes(errorMessage, "400")
    THEN Failed(MsgInvalidKey)
    ELSE Failed(Join(errorMessage))

transcribeAudioWithGemini(key, outcome) ==
    IF RejectsBeforeCall(key) THEN Failed(MsgKeyRequired)
    ELSE IF outcome.threw THEN Rethrown(outcome.message)
    ELSE IF ~Truthy(outcome.text) THEN Rethrown(MsgNoTranscript)
    ELSE Transcribed(outcome.text)

\* ------------------------------------------------------------ derived values
matchedCount ==
    Cardinality({n \in Indices(videos) : Truthy(Get(mp3Links, videos[n].webVideoUrl))})

Loading(text) == [status |-> "loading", text |-> text]
Success(text) == [status |-> "success", text |-> text]
Error(text) == [status |-> "error", text |-> text]

\* an entry of log: what happened, to which item of videosToProcess, under which key
Ev(kind, idx, url) == [ev |-> kind, idx |-> idx, url |-> url]

\* ----------------------------------------------------------- handleTranscribe

\* variant: the filter forgets the cache
Eligible_IgnoresCache(vs, links, cache) ==
    LET Keep(v) == Truthy(Get(links, v.webVideoUrl))
    IN SelectSeq(vs, Keep)

\* variant: the filter looks the transcript up under the video's id
Eligible_CacheById(vs, links, cache) ==
    LET Keep(v) == Truthy(Get(links, v.webVideoUrl)) /\ ~Truthy(Get(cache, v.id))
    IN SelectSeq(vs, Keep)

\* videos.filter(v => mp3Links[v.webVideoUrl] && !transcriptCache[v.webVideoUrl])
Eligible(vs, links, cache) ==
    LET Keep(v) == Truthy(Get(links, v.webVideoUrl)) /\ ~Truthy(Get(cache, v.webVideoUrl))
    IN SelectSeq(vs, Keep)

Step(l, ts, st, busy, events) ==
    [loop |-> l, transcriptStates |-> ts, status |-> st, isProcessing |-> busy,
     events |-> events]

\* the statements after the for loop
LoopExit(l, stop, ts, st) ==
    Step(LoopIdle, ts,
         IF ~stop THEN Status("done", l.successCount, 0, "") ELSE st,
         FALSE, <<Ev("end", 0, "")>>)


\* variant: the loop bound is one short (i < length - 1)
LoopTop_OffByOne(l, j, stop, ts, st) ==
    IF j >= Len(l.videosToProcess) THEN LoopExit(l, stop, ts, st)
    ELSE IF stop
    THEN LoopExit(l, stop, ts, Status("stopped", l.successCount, 0, ""))
    ELSE Step([l EXCEPT !.pc = "download", !.i = j],
              Put(ts, l.videosToProcess[j].webVideoUrl, Loading(TextDownloading)),
              Status("processing", j, Len(l.videosToProcess), ""),
              TRUE, <<Ev("start", j, l.videosToProcess[j].webVideoUrl)>>)

\* the head of iteration j of the for loop, up to the download it awaits
LoopTop(l, j, stop, ts, st) ==
    IF j > Len(l.videosToProcess) THEN LoopExit(l, stop, ts, st)
    ELSE IF stop
    THEN LoopExit(l, stop, ts, Status("stopped", l.successCount, 0, ""))
    ELSE Step([l EXCEPT !.pc = "download", !.i = j],
              Put(ts, l.videosToProcess[j].webVideoUrl, Loading(TextDownloading)),
              Status("processing", j, Len(l.videosToProcess), ""),
              TRUE, <<Ev("start", j, l.videosToProcess[j].webVideoUrl)>>)


\* variant: the pause does not test for the last item
AfterItem_AlwaysPauses(l, stop, ts, st) ==
    IF ~stop
    THEN Step([l EXCEPT !.pc = "delay"], ts, st, TRUE, <<Ev("pause", l.i, "")>>)
    ELSE LoopTop(l, l.i + 1, stop, ts, st)

\* the end of iteration l.i: the pause between items, or the next iteration
AfterItem(l, stop, ts, st) ==
    IF l.i < Len(l.videosToProcess) /\ ~stop
    THEN Step([l EXCEPT !.pc = "delay"], ts, st, TRUE, <<Ev("pause", l.i, "")>>)
    ELSE LoopTop(l, l.i + 1, stop, ts, st)


\* variant: a result that arrives after a stop request is thrown away
ItemSucceeded_DroppedWhenStopped(l, url, transcript, stop, ts, st) ==
    IF stop
    THEN AfterItem(l, stop, ts, st)
    ELSE AfterItem([l EXCEPT !.successCount = @ + 1], stop,
                   Put(ts, url, Success(transcript)), st)

\* the try block's success path and its catch block
ItemSucceeded(l, url, transcript, stop, ts, st) ==
    AfterItem([l EXCEPT !.successCount = @ + 1], stop,
              Put(ts, url, Success(transcript)), st)


\* variant: no catch inside the loop, the failure leaves the for loop
ItemFailed_EndsRun(l, url, msg, stop, ts, st) ==
    LoopExit(l, stop, Put(ts, url, Error(ErrorText(msg))), st)

ItemFailed(l, url, msg, stop, ts, st) ==
    AfterItem(l, stop, Put(ts, url, Error(ErrorText(msg))), st)

LoopFrame ==
    UNCHANGED <<googleApiKey, apifyToken, channelUrl, videos, mp3Links,
                retryingIds, scan, retries, random, nScans, nRetries>>

Apply(r, events) ==
    /\ loop' = r.loop
    /\ transcriptStates' = r.transcriptStates
    /\ status' = r.status
    /\ isProcessing' = r.isProcessing
    /\ log' = events \o r.events

\* the click, up to the first await
\* variant: the stop flag is left as the run before left it
handleTranscribe_KeepsStopFlag ==
    /\ step = "match"
    /\ matchedCount > 0
    /\ ~isProcessing
    /\ nRuns < MaxRuns
    /\ nRuns' = nRuns + 1
    /\ stopRequest' = stopRequest
    /\ step' = "results"
    /\ LET videosToProcess == Eligible(videos, mp3Links, transcriptCache)
           l == [LoopIdle EXCEPT !.videosToProcess = videosToProcess,
                                 !.mp3Links = mp3Links,
                                 !.googleApiKey = googleApiKey]
       IN /\ IF Len(videosToProcess) = 0
             THEN Apply(Step(LoopIdle, transcriptStates, Status("nothing", 0, 0, ""),
                             FALSE, <<Ev("end", 0, "")>>), <<>>)
             ELSE Apply(LoopTop(l, 1, stopRequest, transcriptStates,
                                Status("started", 0, 0, "")), <<>>)
          /\ pre' = [states |-> transcriptStates, cache |-> transcriptCache,
                     videosToProcess |-> videosToProcess, stop |-> stopRequest]
    /\ UNCHANGED transcriptCache
    /\ LoopFrame

handleTranscribe ==
    /\ step = "match"
    /\ matchedCount > 0
    /\ ~isProcessing
    /\ nRuns < MaxRuns
    /\ nRuns' = nRuns + 1
    /\ stopRequest' = FALSE
    /\ step' = "results"
    /\ LET videosToProcess == Eligible(videos, mp3Links, transcriptCache)
           l == [LoopIdle EXCEPT !.videosToProcess = videosToProcess,
                                 !.mp3Links = mp3Links,
                                 !.googleApiKey = googleApiKey]
       IN /\ IF Len(videosToProcess) = 0
             THEN Apply(Step(LoopIdle, transcriptStates, Status("nothing", 0, 0, ""),
                             FALSE, <<Ev("end", 0, "")>>), <<>>)
             ELSE Apply(LoopTop(l, 1, FALSE, transcriptStates,
                                Status("started", 0, 0, "")), <<>>)
          /\ pre' = [states |-> transcriptStates, cache |-> transcriptCache,
                     videosToProcess |-> videosToProcess, stop |-> stopRequest]
    /\ UNCHANGED transcriptCache
    /\ LoopFrame

\* getBase64FromUrl answers; transcribeAudioWithGemini is called, and where it
\* rejects before its own await the catch block runs in the same turn
DownloadReturn(ok) ==
    /\ loop.pc = "download"
    /\ LET url == loop.videosToProcess[loop.i].webVideoUrl
       IN IF ~ok
          THEN Apply(ItemFailed(loop, url, MsgDownload, stopRequest,
                                transcriptStates, status),
                     Append(log, Ev("error", loop.i, url)))
          ELSE IF RejectsBeforeCall(loop.googleApiKey)
          THEN Apply(ItemFailed(loop, url, MsgKeyRequired, stopRequest,
                                Put(transcriptStates, url, Loading(TextTranscribing)),
                                status),
                     log \o <<Ev("downloaded", loop.i, url), Ev("error", loop.i, url)>>)
          ELSE Apply(Step([loop EXCEPT !.pc = "transcribe"],
                          Put(transcriptStates, url, Loading(TextTranscribing)),
                          status, TRUE, <<>>),
                     Append(log, Ev("downloaded", loop.i, url)))
    /\ pre' = [pre EXCEPT !.stop = FALSE]
    /\ UNCHANGED <<step, transcriptCache, stopRequest, nRuns>>
    /\ LoopFrame


\* variant: the cache is written in a finally block, failures included
TranscribeReturn_CachesFailures(outcome) ==
    /\ loop.pc = "transcribe"
    /\ LET url == loop.videosToProcess[loop.i].webVideoUrl
           result == transcribeAudioWithGemini(loop.googleApiKey, outcome)
       IN /\ IF result.ok
             THEN Apply(ItemSucceeded(loop, url, result.text, stopRequest,
                                      transcriptStates, status),
                        Append(log, Ev("success", loop.i, url)))
             ELSE Apply(ItemFailed(loop, url, result.text, stopRequest,
                                   transcriptStates, status),
                        Append(log, Ev("error", loop.i, url)))
          /\ transcriptCache' = Put(transcriptCache, url, result.text)
    /\ UNCHANGED <<step, stopRequest, nRuns, pre>>
    /\ LoopFrame

\* transcribeAudioWithGemini answers
TranscribeReturn(outcome) ==
    /\ loop.pc = "transcribe"
    /\ LET url == loop.videosToProcess[loop.i].webVideoUrl
           result == transcribeAudioWithGemini(loop.googleApiKey, outcome)
       IN IF result.ok
          THEN /\ Apply(ItemSucceeded(loop, url, result.text, stopRequest,
                                      transcriptStates, status),
                        Append(log, Ev("success", loop.i, url)))
               /\ transcriptCache' = Put(transcriptCache, url, result.text)
          ELSE /\ Apply(ItemFailed(loop, url, result.text, stopRequest,
                                   transcriptStates, status),
                        Append(log, Ev("error", loop.i, url)))
               /\ UNCHANGED transcriptCache
    /\ UNCHANGED <<step, stopRequest, nRuns, pre>>
    /\ LoopFrame

\* the timer of the pause between two items fires
DelayElapsed ==
    /\ loop.pc = "delay"
    /\ Apply(LoopTop(loop, loop.i + 1, stopRequest, transcriptStates, status), log)
    /\ UNCHANGED <<step, transcriptCache, stopRequest, nRuns, pre>>
    /\ LoopFrame

handleStopProcessing ==
    /\ step = "results"
    /\ isProcessing
    /\ stopRequest' = TRUE
    /\ status' = Status("stopping", 0, 0, "")
    /\ log' = IF stopRequest THEN log ELSE Append(log, Ev("stop", loop.i, ""))
    /\ UNCHANGED <<step, googleApiKey, apifyToken, channelUrl, isProcessing,
                   videos, mp3Links, transcriptStates, transcriptCache,
                   retryingIds, scan, loop, retries, random, nScans, nRuns,
                   nRetries, pre>>

\* ---------------------------------------------------------------- handleRetry
RetryFrame ==
    UNCHANGED <<step, googleApiKey, apifyToken, channelUrl, isProcessing, status,
                videos, mp3Links, stopRequest, scan, loop, random, nScans,
                nRuns>>

\* the click on the retry button of row n, up to the first await
handleRetry(n) ==
    /\ step = "results"
    /\ n \in Indices(videos)
    /\ LET videoToRetry == videos[n]
           url == videoToRetry.webVideoUrl
           mp3Url == Get(mp3Links, url)
       IN /\ url \notin DOMAIN transcriptCache
          /\ url \in DOMAIN transcriptStates
          /\ transcriptStates[url].status = "error"
          /\ ~isProcessing
          /\ videoToRetry.id \notin retryingIds
          /\ nRetries < MaxRetries
          /\ nRetries' = nRetries + 1
          /\ IF ~Truthy(mp3Url)
             THEN /\ transcriptStates' = Put(transcriptStates, url, Error(TextNoMp3))
                  /\ UNCHANGED <<retryingIds, retries>>
             ELSE /\ retryingIds' = retryingIds \cup {videoToRetry.id}
                  /\ transcriptStates' =
                         Put(transcriptStates, url, Loading(TextDownloading))
                  /\ retries' = retries \cup
                         {[video |-> videoToRetry, mp3Url |-> mp3Url,
                           googleApiKey |-> googleApiKey, pc |-> "download"]}
    /\ log' = <<>>
    /\ pre' = NoRun
    /\ UNCHANGED transcriptCache
    /\ RetryFrame

RetryDownloadReturn(r, ok) ==
    /\ r \in retries
    /\ r.pc = "download"
    /\ LET url == r.video.webVideoUrl
       IN IF ok /\ ~RejectsBeforeCall(r.googleApiKey)
          THEN /\ transcriptStates' =
                      Put(transcriptStates, url, Loading(TextTranscribing))
               /\ retries' = (retries \ {r}) \cup {[r EXCEPT !.pc = "transcribe"]}
               /\ UNCHANGED retryingIds
          ELSE /\ transcriptStates' =
                      Put(transcriptStates, url,
                          Error(ErrorText(IF ok THEN MsgKeyRequired ELSE MsgDownload)))
               /\ retries' = retries \ {r}
               /\ retryingIds' = retryingIds \ {r.video.id}
    /\ UNCHANGED <<transcriptCache, nRetries, log, pre>>
    /\ RetryFrame


\* variant: the retry shows the transcript and does not cache it
RetryTranscribeReturn_NoCache(r, outcome) ==
    /\ r \in retries
    /\ r.pc = "transcribe"
    /\ LET url == r.video.webVideoUrl
           result == transcribeAudioWithGemini(r.googleApiKey, outcome)
       IN transcriptStates' =
              Put(transcriptStates, url,
                  IF result.ok THEN Success(result.text)
                  ELSE Error(ErrorText(result.text)))
    /\ retries' = retries \ {r}
    /\ retryingIds' = retryingIds \ {r.video.id}
    /\ UNCHANGED <<transcriptCache, nRetries, log, pre>>
    /\ RetryFrame

\* variant: the id leaves the set at the end of the try block, not in a finally
RetryTranscribeReturn_NoFinally(r, outcome) ==
    /\ r \in retries
    /\ r.pc = "transcribe"
    /\ LET url == r.video.webVideoUrl
           result == transcribeAudioWithGemini(r.googleApiKey, outcome)
       IN IF result.ok
          THEN /\ transcriptStates' = Put(transcriptStates, url, Success(result.text))
               /\ transcriptCache' = Put(transcriptCache, url, result.text)
               /\ retryingIds' = retryingIds \ {r.video.id}
          ELSE /\ transcriptStates' =
                      Put(transcriptStates, url, Error(ErrorText(result.text)))
               /\ UNCHANGED <<transcriptCache, retryingIds>>
    /\ retries' = retries \ {r}
    /\ UNCHANGED <<nRetries, log, pre>>
    /\ RetryFrame

RetryTranscribeReturn(r, outcome) ==
    /\ r \in retries
    /\ r.pc = "transcribe"
    /\ LET url == r.video.webVideoUrl
           result == transcribeAudioWithGemini(r.googleApiKey, outcome)
       IN IF result.ok
          THEN /\ transcriptStates' = Put(transcriptStates, url, Success(result.text))
               /\ transcriptCache' = Put(transcriptCache, url, result.text)
          ELSE /\ transcriptStates' =
                      Put(transcriptStates, url, Error(ErrorText(result.text)))
               /\ UNCHANGED transcriptCache
    /\ retries' = retries \ {r}
    /\ retryingIds' = retryingIds \ {r.video.id}
    /\ UNCHANGED <<nRetries, log, pre>>
    /\ RetryFrame

\* ------------------------------------------------------- go back and reset
\* variant: the go-back button is rendered during a pass as well
GoBack_ShownWhileProcessing ==
    /\ step = "results"
    /\ step' = "match"
    /\ log' = <<>>
    /\ pre' = NoRun
    /\ UNCHANGED <<googleApiKey, apifyToken, channelUrl, isProcessing, status,
                   videos, mp3Links, transcriptStates, transcriptCache,
                   retryingIds, stopRequest, scan, loop, retries, random,
                   nScans, nRuns, nRetries>>

GoBack ==
    /\ step = "results"
    /\ ~isProcessing
    /\ step' = "match"
    /\ log' = <<>>
    /\ pre' = NoRun
    /\ UNCHANGED <<googleApiKey, apifyToken, channelUrl, isProcessing, status,
                   videos, mp3Links, transcriptStates, transcriptCache,
                   retryingIds, stopRequest, scan, loop, retries, random,
                   nScans, nRuns, nRetries>>


\* variant: the reset also wipes what is stored: the cache and the credentials
handleClearSession_ClearsStorage ==
    /\ ~isProcessing
    /\ videos' = <<>>
    /\ transcriptStates' = EmptyMap
    /\ mp3Links' = EmptyMap
    /\ transcriptCache' = EmptyMap
    /\ googleApiKey' = ""
    /\ apifyToken' = ""
    /\ channelUrl' = <<>>
    /\ status' = StatusReady
    /\ step' = "scan"
    /\ log' = <<>>
    /\ pre' = NoRun
    /\ UNCHANGED <<isProcessing, retryingIds, stopRequest, scan, loop, retries,
                   random, nScans, nRuns, nRetries>>

handleClearSession ==
    /\ ~isProcessing
    /\ videos' = <<>>
    /\ transcriptStates' = EmptyMap
    /\ mp3Links' = EmptyMap
    /\ channelUrl' = <<>>
    /\ status' = StatusReady
    /\ step' = "scan"
    /\ log' = <<>>
    /\ pre' = NoRun
    /\ UNCHANGED <<googleApiKey, apifyToken, isProcessing, transcriptCache,
                   retryingIds, stopRequest, scan, loop, retries, random,
                   nScans, nRuns, nRetries>>

\* ------------------------------------------------------------------ system
Next ==
    \/ \E k \in Keys : SetGoogleApiKey(k)
    \/ \E k \in ApifyTokens : SetApifyToken(k)
    \/ \E u \in ChannelUrls : SetChannelUrl(u)
    \/ handleScan
    \/ \E response \in Responses(IF scan = "tiktok" THEN TikTokItems ELSE FacebookItems) :
           ScanReturn(response)
    \/ \E n \in Indices(videos), m \in Mp3Inputs :
           handleMp3LinkChange(videos[n].webVideoUrl, m)
    \/ handleTranscribe
    \/ \E ok \in BOOLEAN : DownloadReturn(ok)
    \/ \E outcome \in AiOutcomes(AiFailures) : TranscribeReturn(outcome)
    \/ DelayElapsed
    \/ handleStopProcessing
    \/ \E n \in Indices(videos) : handleRetry(n)
    \/ \E r \in retries, ok \in BOOLEAN : RetryDownloadReturn(r, ok)
    \/ \E r \in retries, outcome \in AiOutcomes(AiFailures) :
           RetryTranscribeReturn(r, outcome)
    \/ GoBack
    \/ handleClearSession

Spec == Init /\ [][Next]_vars

\* ------------------------------------------------------ a restored session
\* what useLocalStorage hands back when the page is loaded again: the
\* credentials, the audio assignments and the transcript cache of an earlier
\* session; everything else starts as in Init
RestoredLinks == { [k \in {"a"} |-> "m1"] }
RestoredCaches == { [k \in {"a"} |-> "t1"], [k \in {"b"} |-> "t1"] }

InitRestored ==
    /\ step = "scan"
    /\ googleApiKey = "k"
    /\ apifyToken = "k"
    /\ channelUrl = <<>>
    /\ isProcessing = FALSE
    /\ status = StatusReady
    /\ videos = <<>>
    /\ mp3Links \in RestoredLinks
    /\ transcriptStates = EmptyMap
    /\ transcriptCache \in RestoredCaches
    /\ retryingIds = {}
    /\ stopRequest = FALSE
    /\ scan = "idle"
    /\ loop = LoopIdle
    /\ retries = {}
    /\ random = 0
    /\ nScans = 0
    /\ nRuns = 0
    /\ nRetries = 0
    /\ log = <<>>
    /\ pre = NoRun

SpecRestored == InitRestored /\ [][Next]_vars

\* ------------------------------------------- the failures of the AI service
\* the same program on one TikTok channel, with an AI service that fails with
\* every kind of message the catch block of transcribeAudioWithGemini tells
\* apart
TranscriberUrls == { <<"TikTok.com", "@u">> }
TranscriberFailures == AiFailures \cup MarkedAiFailures

NextTranscriber ==
    \/ SetGoogleApiKey("k")
    \/ SetApifyToken("k")
    \/ \E u \in TranscriberUrls : SetChannelUrl(u)
    \/ handleScan
    \/ \E response \in Responses(TikTokItems) : ScanReturn(response)
    \/ \E n \in Indices(videos), m \in Mp3Inputs :
           handleMp3LinkChange(videos[n].webVideoUrl, m)
    \/ handleTranscribe
    \/ \E ok \in BOOLEAN : DownloadReturn(ok)
    \/ \E outcome \in AiOutcomes(TranscriberFailures) : TranscribeReturn(outcome)
    \/ DelayElapsed
    \/ handleStopProcessing
    \/ \E n \in Indices(videos) : handleRetry(n)
    \/ \E r \in retries, ok \in BOOLEAN : RetryDownloadReturn(r, ok)
    \/ \E r \in retries, outcome \in AiOutcomes(TranscriberFailures) :
           RetryTranscribeReturn(r, outcome)
    \/ GoBack
    \/ handleClearSession

SpecTranscriber == Init /\ [][NextTranscriber]_vars

\* ------------------------------------------------ the TikTok channel URLs
\* what the operator may type for a TikTok channel, piece by piece: with and
\* without a scheme, with spaces around, with no, one or two '@' segments
HandleUrls ==
    { <<"https://", "tiktok.com", "/", "@", "a">>,
      <<"https://", "tiktok.com", "/", "@", "a", "/", "video", "/", "1">>,
      <<"https://", "tiktok.com", "/", "@", "a", "/", "@", "b">>,
      <<" ", "https://", "tiktok.com", "/", "@", "a", " ">>,
      <<"https://", "tiktok.com", "/", "x">>,
      <<"https://", "tiktok.com">>,
      <<"tiktok.com", "/", "@", "a">>,
      <<"@", "tiktok.com">>,
      <<" ", "@", "tiktok.com", " ">> }

NextHandle ==
    \/ SetGoogleApiKey("k")
    \/ SetApifyToken("k")
    \/ \E u \in HandleUrls : SetChannelUrl(u)
    \/ handleScan
    \/ \E response \in Responses(TikTokItems) : ScanReturn(response)
    \/ handleClearSession

SpecHandle == Init /\ [][NextHandle]_vars

\* ------------------------------------------------- calls that always settle
\* the same program on one TikTok channel whose scan fails, returns two videos,
\* or returns one video twice; every awaited call settles: the backend request,
\* the audio download and the AI call answer or fail, and the timer of the
\* pause fires.  What the operator does is left free: no click is ever owed.
LiveUrls == { <<"TikTok.com", "@u">> }
LiveResponses ==
    {[ok |-> FALSE, array |-> FALSE, data |-> <<>>],
     [ok |-> TRUE, array |-> TRUE,
      data |-> <<[id |-> "1", webVideoUrl |-> "a"], [id |-> Null, webVideoUrl |-> "b"]>>],
     [ok |-> TRUE, array |-> TRUE,
      data |-> <<[id |-> "1", webVideoUrl |-> "a"], [id |-> "1", webVideoUrl |-> "a"]>>]}

NextLive ==
    \/ \E k \in Keys : SetGoogleApiKey(k)
    \/ SetApifyToken("k")
    \/ \E u \in LiveUrls : SetChannelUrl(u)
    \/ handleScan
    \/ \E response \in LiveResponses : ScanReturn(response)
    \/ \E n \in Indices(videos), m \in Mp3Inputs :
           handleMp3LinkChange(videos[n].webVideoUrl, m)
    \/ handleTranscribe
    \/ \E ok \in BOOLEAN : DownloadReturn(ok)
    \/ \E outcome \in AiOutcomes(AiFailures) : TranscribeReturn(outcome)
    \/ DelayElapsed
    \/ handleStopProcessing
    \/ \E n \in Indices(videos) : handleRetry(n)
    \/ \E r \in retries, ok \in BOOLEAN : RetryDownloadReturn(r, ok)
    \/ \E r \in retries, outcome \in AiOutcomes(AiFailures) :
           RetryTranscribeReturn(r, outcome)
    \/ GoBack
    \/ handleClearSession

ExternalCallsSettle ==
    /\ WF_vars(\E response \in LiveResponses : ScanReturn(response))
    /\ WF_vars(\E ok \in BOOLEAN : DownloadReturn(ok))
    /\ WF_vars(\E outcome \in AiOutcomes(AiFailures) : TranscribeReturn(outcome))
    /\ WF_vars(DelayElapsed)
    /\ WF_vars(\E r \in retries, ok \in BOOLEAN : RetryDownloadReturn(r, ok))
    /\ WF_vars(\E r \in retries, outcome \in AiOutcomes(AiFailures) :
                   RetryTranscribeReturn(r, outcome))

SpecLive == Init /\ [][NextLive]_vars /\ ExternalCallsSettle

\* ----------------------------------------------- raw items of every shape
\* one raw item of each actor with every optional property present, and the
\* items it becomes when some of them are absent; an optional property is named
\* by its path
TikTokFull ==
    [id |-> "1", webVideoUrl |-> "a",
     text |-> Str("hi"), createTime |-> Num(3), createTimeISO |-> Str(toISOString(3000)),
     authorMeta |-> [name |-> Str("n"), nickName |-> Str("nn"), avatar |-> Str("av")],
     diggCount |-> Num(1), commentCount |-> Num(2), shareCount |-> Num(3),
     playCount |-> Num(4),
     videoMeta |-> [duration |-> Num(5), height |-> Num(6), width |-> Num(7)],
     musicMeta |-> [musicName |-> Str("song"), musicAuthor |-> Str("band"),
                    musicOriginal |-> Bool(TRUE)]]
FacebookFull ==
    [video_id |-> "1", post_id |-> Null, shareable_url |-> "a", permalink_url |-> Null,
     message |-> Str("hi"), creation_time |-> Num(3),
     video_owner_name |-> Str("n"), video_owner_profile_pic_url |-> Str("av"),
     reactions_count |-> Num(1), comments_count |-> Num(2), shares_count |-> Num(3),
     views_count |-> Num(4), playable_duration_in_ms |-> Num(5000),
     playback_video_height |-> Num(6), playback_video_width |-> Num(7),
     track_title |-> Str("song"), is_original_audio_on_facebook |-> Bool(TRUE)]

RequiredProps == {"id", "webVideoUrl", "video_id", "post_id", "shareable_url",
                  "permalink_url"}
IsObject(x) == "t" \notin DOMAIN x
OptionalPaths(full) ==
    UNION {IF IsObject(full[f]) THEN {<<f, g>> : g \in DOMAIN full[f]} ELSE {<<f>>}
              : f \in DOMAIN full \ RequiredProps}

\* the item without the properties of the paths; an object none of whose
\* properties is left is absent itself
Without(full, paths) ==
    LET Left(f) == IF f \in RequiredProps \/ ~IsObject(full[f]) THEN {}
                   ELSE {g \in DOMAIN full[f] : <<f, g>> \notin paths}
        kept == {f \in DOMAIN full :
                    \/ f \in RequiredProps
                    \/ ~IsObject(full[f]) /\ <<f>> \notin paths
                    \/ IsObject(full[f]) /\ Left(f) # {}}
    IN [f \in kept |->
           IF f \in RequiredProps \/ ~IsObject(full[f]) THEN full[f]
           ELSE [g \in Left(f) |-> full[f][g]]]

ItemsOfEveryShape(full) == {Without(full, paths) : paths \in SUBSET OptionalPaths(full)}

\* Facebook items whose identifier is there and empty
FacebookEmptyIdItems ==
    { [video_id |-> "", post_id |-> "2", shareable_url |-> "a", permalink_url |-> Null],
      [video_id |-> "", post_id |-> Null, shareable_url |-> "a", permalink_url |-> Null] }

RawItems(platform) ==
    IF platform = "tiktok" THEN ItemsOfEveryShape(TikTokFull)
    ELSE ItemsOfEveryShape(FacebookFull) \cup FacebookEmptyIdItems

MapperUrls == { <<"TikTok.com", "@u">>, <<"facebook.com", "p">> }

NextMapper ==
    \/ SetGoogleApiKey("k")
    \/ SetApifyToken("k")
    \/ \E u \in MapperUrls : SetChannelUrl(u)
    \/ handleScan
    \/ /\ scan # "idle"
       /\ \E item \in RawItems(scan) :
              ScanReturn([ok |-> TRUE, array |-> TRUE, data |-> <<item>>])
    \/ handleClearSession

SpecMapper == Init /\ [][NextMapper]_vars

\* ============================================================== the claims
IsAttemptEvent(e) == e.ev \in {"start", "success", "error"}
IsOutcome(e) == e.ev \in {"success", "error"}
IsPause(e) == e.ev = "pause"
Attempts == SelectSeq(log, IsAttemptEvent)
Pauses == SelectSeq(log, IsPause)
RunEnded == log # <<>> /\ Last(log).ev = "end"
StopRequested == \E p \in Indices(log) : log[p].ev = "stop"
NEligible == Len(pre.videosToProcess)
KeyOf(j) == pre.videosToProcess[j].webVideoUrl
Same(m1, m2, k) ==
    /\ (k \in DOMAIN m1) <=> (k \in DOMAIN m2)
    /\ k \in DOMAIN m1 => m1[k] = m2[k]
\* the j-th smallest element of a set of numbers
NthOf(S, j) == CHOOSE n \in S : Cardinality({m \in S : m < n}) = j - 1
\* rows of the list that had an audio assignment and no cache entry at the start
EligibleRows ==
    {n \in Indices(videos) :
        /\ Truthy(Get(mp3Links, videos[n].webVideoUrl))
        /\ videos[n].webVideoUrl \notin DOMAIN pre.cache}

\* C1: the attempts of a run are start 1, outcome 1, start 2, outcome 2, ...: item
\* j of the eligible list, in list order, each once, no start before the previous
\* outcome; the call in flight is the one of the last started item; and a run that
\* ended with no stop request made exactly one attempt per eligible video.
C1_OneAttemptPerEligibleInOrder ==
    /\ Len(Attempts) <= 2 * NEligible
    /\ \A p \in Indices(Attempts) :
          IF p % 2 = 1
          THEN Attempts[p] = Ev("start", (p + 1) \div 2, KeyOf((p + 1) \div 2))
          ELSE /\ IsOutcome(Attempts[p])
               /\ Attempts[p].idx = p \div 2
               /\ Attempts[p].url = KeyOf(p \div 2)
    /\ loop.pc \in {"download", "transcribe"} =>
          /\ Len(Attempts) % 2 = 1
          /\ Last(Attempts).idx = loop.i
    /\ loop.pc \in {"idle", "delay"} => Len(Attempts) % 2 = 0
    /\ log # <<>> =>
          /\ NEligible = Cardinality(EligibleRows)
          /\ \A j \in 1..NEligible : pre.videosToProcess[j] = videos[NthOf(EligibleRows, j)]
    /\ (RunEnded /\ ~StopRequested) => Len(Attempts) = 2 * NEligible

C1_Witness ==
    /\ RunEnded /\ ~StopRequested
    /\ NEligible = 2 /\ Len(Attempts) = 4
    /\ KeyOf(1) # KeyOf(2)

\* C2: a pause follows the outcome of an item that is not the last and comes
\* before the start of the next item; a run that ended with no stop request made
\* exactly N-1 pauses, after items 1..N-1, and none after item N.
C2_PausesBetweenItems ==
    /\ \A q \in Indices(log) :
          /\ IsPause(log[q]) =>
                /\ q > 1 /\ IsOutcome(log[q - 1]) /\ log[q - 1].idx = log[q].idx
                /\ log[q].idx < NEligible
                /\ q < Len(log) =>
                      \/ log[q + 1].ev = "stop"
                      \/ log[q + 1].ev = "start" /\ log[q + 1].idx = log[q].idx + 1
          /\ (log[q].ev = "start" /\ log[q].idx > 1) =>
                log[q - 1] = Ev("pause", log[q].idx - 1, "")
    /\ (RunEnded /\ ~StopRequested /\ NEligible > 0) =>
          /\ Len(Pauses) = NEligible - 1
          /\ \A j \in 1..(NEligible - 1) : Pauses[j].idx = j

C2_Witness ==
    /\ RunEnded /\ ~StopRequested
    /\ NEligible = 2 /\ Len(Pauses) = 1

\* the first stop request of the run came while item k was the last one started
StoppedAt(k) == \E p \in Indices(log) : log[p] = Ev("stop", k, "")
Outcomes == SelectSeq(log, IsOutcome)

\* the step in which a main-loop run ends: it clears the processing flag
RunEnds == step = "results" /\ isProcessing /\ ~isProcessing'

\* the step in which the main loop records the outcome of the item in flight
LoopRecords(kind) ==
    \E p \in (Len(log) + 1)..Len(log') :
        log'[p].ev = kind /\ log'[p].idx = loop.i
LoopKey == loop.videosToProcess[loop.i].webVideoUrl

StopCase(k) ==
    /\ \A p \in Indices(log) : log[p].ev = "start" => log[p].idx <= k
    /\ Len(Outcomes) = k
    /\ \A j \in (k + 1)..NEligible :
          /\ Same(transcriptStates, pre.states, KeyOf(j))
          /\ Same(transcriptCache, pre.cache, KeyOf(j))

\* C3: when a run ends in which stop was requested after item k started and
\* before item k+1 started (1 <= k < N), no item after k was started, exactly k
\* outcomes were recorded, and the per-video state and the cache entry of every
\* item k+1..N are what they were when the run started.
C3_StopLeavesLaterItemsAsBefore ==
    [][RunEnds => \A k \in 1..(NEligible - 1) : StoppedAt(k) => StopCase(k)']_vars

\* C4: a stop request changes nothing but the flag and the status line, and the
\* step that ends a download or a transcription in flight does with the flag set
\* what it does with the flag clear: a finished download goes on to the
\* transcription of the same item, a transcript is written to the state and the
\* cache, a failure to the state alone.
C4_StopDoesNotAbortTheCallInFlight ==
    [][/\ (stopRequest' /\ ~stopRequest) =>
             /\ loop' = loop /\ retries' = retries
             /\ transcriptStates' = transcriptStates
             /\ transcriptCache' = transcriptCache
       /\ (stopRequest /\ loop.pc = "download" /\ loop' # loop) =>
             \/ /\ loop' = [loop EXCEPT !.pc = "transcribe"]
                /\ transcriptStates' =
                       Put(transcriptStates, LoopKey, Loading(TextTranscribing))
             \/ /\ LoopRecords("error")
                /\ \E m \in {MsgDownload, MsgKeyRequired} :
                      transcriptStates' =
                          Put(transcriptStates, LoopKey, Error(ErrorText(m)))
       /\ (stopRequest /\ loop.pc = "transcribe" /\ loop' # loop) =>
             \/ /\ LoopRecords("success")
                /\ \E t \in Transcripts :
                      /\ transcriptStates' = Put(transcriptStates, LoopKey, Success(t))
                      /\ transcriptCache' = Put(transcriptCache, LoopKey, t)
             \/ /\ LoopRecords("error")
                /\ transcriptStates'[LoopKey].status = "error"
                /\ transcriptCache' = transcriptCache
      ]_vars

\* a run ended after a stop request that came while an item was in flight, and
\* that item's transcript is in the cache
C4_Witness ==
    /\ RunEnded
    /\ \E p \in Indices(log) :
          /\ p + 1 \in Indices(log)
          /\ log[p].ev = "stop"
          /\ log[p + 1].ev = "success"
          /\ log[p + 1].url \in DOMAIN transcriptCache

\* C5: the eligible list of a run is the rows of the video list, in list order,
\* that had a non-empty audio assignment and no cache entry when the run started;
\* the run starts no item whose key had a cache entry then.
C5_EligibleIsAssignedAndNotCached ==
    log # <<>> =>
        /\ NEligible = Cardinality(EligibleRows)
        /\ \A j \in 1..NEligible :
              pre.videosToProcess[j] = videos[NthOf(EligibleRows, j)]
        /\ \A p \in Indices(log) :
              log[p].ev = "start" =>
                  /\ log[p].url \notin DOMAIN pre.cache
                  /\ Truthy(Get(mp3Links, log[p].url))

\* a second run that leaves out a cached video whose audio field still has a value
C5_Witness ==
    /\ nRuns = 2 /\ log # <<>>
    /\ NEligible = 1
    /\ \E n \in Indices(videos) :
          /\ videos[n].webVideoUrl \in DOMAIN pre.cache
          /\ Truthy(Get(mp3Links, videos[n].webVideoUrl))

AllAssignedAreCached ==
    \A n \in Indices(videos) :
        Truthy(Get(mp3Links, videos[n].webVideoUrl)) =>
            videos[n].webVideoUrl \in DOMAIN transcriptCache

\* C6: starting a run when every video with an audio assignment has a cache
\* entry makes no call: the stage becomes results, the status reports nothing to
\* do, the processing flag is clear, no loop call is in flight, and the cache and
\* the per-video states are unchanged.
C6_RerunWithAllCachedDoesNothing ==
    [][(step = "match" /\ step' = "results" /\ AllAssignedAreCached) =>
          /\ status'.kind = "nothing"
          /\ ~isProcessing'
          /\ loop'.pc = "idle"
          /\ log' = <<Ev("end", 0, "")>>
          /\ transcriptCache' = transcriptCache
          /\ transcriptStates' = transcriptStates
      ]_vars

C6_Witness ==
    /\ nRuns = 2 /\ step = "results"
    /\ status.kind = "nothing"
    /\ log = <<Ev("end", 0, "")>>
    /\ DOMAIN transcriptCache # {}

\* the messages of the errors an attempt can end in
LoopMessages ==
    {MsgDownload, MsgKeyRequired, Join(MsgNoTranscript), MsgQuota, MsgInvalidKey,
     Join(<<"503", "upstream">>)}

\* C7: the step in which the loop records a success writes the transcript as the
\* item's state text and as the cache entry of the item's key, and nothing else
\* in the two maps; the step in which it records a failure writes the item's
\* error state with the message and leaves the cache as it was.
C7_SuccessWritesBothFailureWritesState ==
    [][/\ LoopRecords("success") =>
             \E t \in Transcripts :
                /\ transcriptStates' = Put(transcriptStates, LoopKey, Success(t))
                /\ transcriptCache' = Put(transcriptCache, LoopKey, t)
       /\ LoopRecords("error") =>
             /\ \E m \in LoopMessages :
                   transcriptStates' = Put(transcriptStates, LoopKey, Error(ErrorText(m)))
             /\ transcriptCache' = transcriptCache
      ]_vars

\* one run recorded a success and a failure: the first is cached, the second not
C7_Witness ==
    /\ \E p, q \in Indices(log) :
          /\ log[p].ev = "success" /\ log[q].ev = "error"
          /\ log[p].url # log[q].url
          /\ log[p].url \in DOMAIN transcriptCache
          /\ log[q].url \notin DOMAIN transcriptCache
          /\ transcriptStates[log[q].url].status = "error"

\* C8: the step in which the loop records the failure of an item that is not the
\* last, with no stop requested, leaves the run going (processing flag set, the
\* pause before the next item begun); and a run that ended with fewer outcomes
\* than eligible items had a stop request.
C8_FailureDoesNotEndTheRun ==
    /\ [](RunEnded /\ Len(Outcomes) < NEligible => StopRequested)
    /\ [][(LoopRecords("error") /\ ~stopRequest /\ loop.i < Len(loop.videosToProcess)) =>
             /\ isProcessing'
             /\ loop' = [loop EXCEPT !.pc = "delay"]
             /\ transcriptStates'[LoopKey].status = "error"
         ]_vars

\* the first item failed and the second was attempted all the same
C8_Witness ==
    /\ Len(Outcomes) = 2
    /\ Outcomes[1].ev = "error"
    /\ ~StopRequested

Successes == {j \in 1..NEligible : \E p \in Indices(log) : log[p] = Ev("success", j, KeyOf(j))}
Failures == {j \in 1..NEligible : \E p \in Indices(log) : log[p] = Ev("error", j, KeyOf(j))}

EndOfRun ==
    /\ status = Status("done", Cardinality(Successes), 0, "")
    /\ DOMAIN transcriptCache = DOMAIN pre.cache \cup {KeyOf(j) : j \in Successes}
    /\ \A k \in DOMAIN pre.cache : transcriptCache[k] = pre.cache[k]
    /\ \A j \in Successes :
          /\ KeyOf(j) \in DOMAIN transcriptStates
          /\ transcriptStates[KeyOf(j)].status = "success"
    /\ \A j \in Failures :
          /\ KeyOf(j) \in DOMAIN transcriptStates
          /\ transcriptStates[KeyOf(j)].status = "error"

\* C9: when a run with eligible items ends with no stop requested, the status
\* reports as many successes as items succeeded in the run, the cache has gained
\* an entry for the keys of exactly those items, and the per-video status of an
\* attempted item is success if its attempt succeeded and error otherwise.
C9_EndStateMatchesOutcomes ==
    [][(RunEnds /\ ~stopRequest) => EndOfRun']_vars

\* the step of a click on a retry button, and the step in which a retry in
\* flight gets the answer of its download or of its transcription
RetryClick == nRetries' = nRetries + 1
RetryAnswer == retries' # retries /\ nRetries' = nRetries
InError(url) == url \in DOMAIN transcriptStates /\ transcriptStates[url].status = "error"

\* a retry in flight goes from its download to its transcription (state loading),
\* or ends in error (state alone written), or ends in success: the transcript is
\* the state text and the cache entry under the item's key, as in the main loop;
\* each step writes the entry of the retried key and of no other key
RetryAnswered ==
    \E r \in retries :
        LET url == r.video.webVideoUrl
        IN \/ /\ r.pc = "download"
              /\ retries' = (retries \ {r}) \cup {[r EXCEPT !.pc = "transcribe"]}
              /\ transcriptStates' = Put(transcriptStates, url, Loading(TextTranscribing))
              /\ transcriptCache' = transcriptCache
           \/ /\ retries' = retries \ {r}
              /\ \E m \in LoopMessages :
                    transcriptStates' = Put(transcriptStates, url, Error(ErrorText(m)))
              /\ transcriptCache' = transcriptCache
           \/ /\ r.pc = "transcribe"
              /\ retries' = retries \ {r}
              /\ \E t \in Transcripts :
                    /\ transcriptStates' = Put(transcriptStates, url, Success(t))
                    /\ transcriptCache' = Put(transcriptCache, url, t)

\* the click puts the item in the loading state, its download in flight
RetryStarted(n) ==
    /\ transcriptStates' =
           Put(transcriptStates, videos[n].webVideoUrl, Loading(TextDownloading))
    /\ transcriptCache' = transcriptCache
    /\ \E r \in retries' :
          /\ retries' = retries \cup {r}
          /\ r.video = videos[n] /\ r.pc = "download"

\* C10 as stated: every retry of an item in error puts it in loading, from where
\* it goes to success or error; no other key's state or cache entry changes, and
\* a success writes the cache entry the main loop writes.
C10_RetryGoesThroughLoading ==
    [][/\ RetryClick =>
             \E n \in Indices(videos) :
                 InError(videos[n].webVideoUrl) /\ RetryStarted(n)
       /\ RetryAnswer => RetryAnswered
      ]_vars

\* C10 amended: the retry of an item in error whose audio assignment is non-empty
\* puts it in loading, from where it goes to success or error; the retry of one
\* whose assignment is empty or missing leaves it in error with the no-link
\* message and makes no call; no other key's state or cache entry changes, and a
\* success writes the cache entry the main loop writes.
C10_RetryOfAssignedGoesThroughLoading ==
    [][/\ RetryClick =>
             \E n \in Indices(videos) :
                 /\ InError(videos[n].webVideoUrl)
                 /\ IF Truthy(Get(mp3Links, videos[n].webVideoUrl))
                    THEN RetryStarted(n)
                    ELSE /\ transcriptStates' =
                                Put(transcriptStates, videos[n].webVideoUrl,
                                    Error(TextNoMp3))
                         /\ transcriptCache' = transcriptCache
                         /\ retries' = retries
       /\ RetryAnswer => RetryAnswered
      ]_vars

\* two videos are cached: one by the run, the one that failed in it by its retry
C10_Witness ==
    /\ nRetries = 1 /\ retries = {}
    /\ log = <<>> /\ step = "results"
    /\ Cardinality(DOMAIN transcriptCache) = 2
    /\ \A k \in DOMAIN transcriptCache :
          /\ k \in DOMAIN transcriptStates
          /\ transcriptStates[k] = Success(transcriptCache[k])

\* where a key is in the per-video state machine
Phase(ts, k) ==
    IF k \notin DOMAIN ts THEN "idle"
    ELSE IF ts[k].status # "loading" THEN ts[k].status
    ELSE IF ts[k].text = TextDownloading THEN "downloading"
    ELSE "transcribing"

PhaseChanges ==
    { <<"idle", "downloading">>, <<"downloading", "transcribing">>,
      <<"downloading", "error">>, <<"transcribing", "success">>,
      <<"transcribing", "error">>, <<"error", "downloading">> }

\* C11: in every step other than a reset, which empties the map, the status of
\* every key stays as it is or changes along idle -> downloading,
\* downloading -> transcribing | error, transcribing -> success | error,
\* error -> downloading.
C11_StatusFollowsTheStateMachine ==
    [][\/ transcriptStates' = EmptyMap /\ step' = "scan"
       \/ \A k \in DOMAIN transcriptStates \cup DOMAIN transcriptStates' :
             \/ Phase(transcriptStates', k) = Phase(transcriptStates, k)
             \/ <<Phase(transcriptStates, k), Phase(transcriptStates', k)>> \in PhaseChanges
      ]_vars

\* the step in which a scan ends in failure
ScanFails == status'.kind = "scanError" /\ status' # status

\* C12: the stage changes only from scan to match at the successful answer of a
\* scan, from match to results at a start, from results to match with no run
\* active (go back), and to scan (reset); a scan that fails leaves it at scan.
C12_StageChangesOnlyAlongTheArrows ==
    [][/\ step' # step =>
             \/ /\ step = "scan" /\ step' = "match"
                /\ scan # "idle" /\ scan' = "idle"
                /\ status'.kind = "scanned" /\ videos' # <<>>
             \/ /\ step = "match" /\ step' = "results"
                /\ nRuns' = nRuns + 1
             \/ /\ step = "results" /\ step' = "match"
                /\ ~isProcessing
             \/ /\ step' = "scan"
                /\ videos' = <<>> /\ transcriptStates' = EmptyMap
       /\ ScanFails => step = "scan" /\ step' = "scan"
      ]_vars

\* the operator went back from the results to the match stage
C12_Witness ==
    /\ step = "match" /\ nRuns > 0
    /\ nScans = 1 /\ videos # <<>>

\* C13: a reset empties the video list, the per-video states and the audio
\* assignments and sets the stage to scan, and leaves the transcript cache and
\* the two credentials as they were.
C13_ResetKeepsCacheAndCredentials ==
    [][handleClearSession =>
          /\ videos' = <<>>
          /\ transcriptStates' = EmptyMap
          /\ mp3Links' = EmptyMap
          /\ step' = "scan"
          /\ transcriptCache' = transcriptCache
          /\ googleApiKey' = googleApiKey
          /\ apifyToken' = apifyToken
      ]_vars

\* after a reset that followed a run: nothing listed, nothing assigned, the
\* transcript of the run still cached and the credentials still there
C13_Witness ==
    /\ step = "scan" /\ status = StatusReady
    /\ videos = <<>> /\ transcriptStates = EmptyMap /\ mp3Links = EmptyMap
    /\ DOMAIN transcriptCache # {}
    /\ Truthy(googleApiKey) /\ Truthy(apifyToken)

\* the step in which the operator starts a scan, and the step in which the
\* backend's answer ends one
ScanClick == nScans' = nScans + 1
ScanAnswer == scan # "idle" /\ scan' = "idle"

\* what the services make of the answers the backend can give
ScanResults ==
    IF scan = "tiktok"
    THEN {fetchTikTokData(response, random) : response \in Responses(TikTokItems)}
    ELSE {fetchFacebookData(response) : response \in Responses(FacebookItems)}

\* C14: the answer of a scan either succeeds: the video list becomes the list of
\* records the service returned and the stage becomes match; or fails: list and
\* stage stay; the click and the answer leave the audio assignments and the
\* transcript cache as they were.
C14_ScanKeepsAssignmentsAndCache ==
    [][/\ ScanClick => mp3Links' = mp3Links /\ transcriptCache' = transcriptCache
       /\ ScanAnswer =>
             /\ mp3Links' = mp3Links /\ transcriptCache' = transcriptCache
             /\ \E result \in ScanResults :
                   IF result.ok
                   THEN videos' = result.videos /\ step' = "match"
                   ELSE videos' = videos /\ step' = step
      ]_vars

\* a scan succeeded in a session that came with assignments and cached
\* transcripts, and they are still there
C14_Witness ==
    /\ step = "match" /\ status.kind = "scanned" /\ videos # <<>>
    /\ mp3Links \in RestoredLinks
    /\ transcriptCache \in RestoredCaches

HasPlatformMarker(url) ==
    \/ Includes(ToLowerCase(url), "tiktok.com")
    \/ Includes(ToLowerCase(url), "facebook.com")
    \/ Includes(ToLowerCase(url), "fb.com")

\* C15: a scan started on a channel URL with neither platform's marker ends in
\* the same step with the unsupported-URL error: no backend request is in
\* flight, the processing flag is clear, the stage is scan, the list is empty.
C15_UnsupportedUrlFailsBeforeAnyCall ==
    [][(ScanClick /\ ~HasPlatformMarker(channelUrl)) =>
          /\ scan' = "idle"
          /\ ~isProcessing'
          /\ status' = Status("scanError", 0, 0, MsgUnsupported)
          /\ step' = "scan"
          /\ videos' = <<>>
      ]_vars

C15_Witness ==
    /\ nScans = 1 /\ scan = "idle"
    /\ ~HasPlatformMarker(channelUrl) /\ channelUrl # <<>>
    /\ status = Status("scanError", 0, 0, MsgUnsupported)
    /\ step = "scan" /\ videos = <<>>

\* a successful answer of the backend with no usable record in it
NoUsableRecord(response, platform) ==
    /\ response.ok
    /\ \/ ~response.array
       \/ Len(response.data) = 0
       \/ /\ platform = "facebook"
          /\ \A n \in Indices(response.data) : ~isFacebookVideoPost(response.data[n])

EmptyResultMessages == {MsgNoVideos, MsgNoPosts}

\* C16: for either platform the fetch rejects a successful answer that holds no
\* usable record; and the answer of a scan never leads to the match stage with
\* an empty list: with an empty list the stage is scan and the status an error.
C16_EmptyResultIsAFailure ==
    /\ [](/\ \A response \in Responses(TikTokItems) :
               NoUsableRecord(response, "tiktok") =>
                   /\ ~fetchTikTokData(response, random).ok
                   /\ fetchTikTokData(response, random).msg \in EmptyResultMessages
          /\ \A response \in Responses(FacebookItems) :
               NoUsableRecord(response, "facebook") =>
                   /\ ~fetchFacebookData(response).ok
                   /\ fetchFacebookData(response).msg \in EmptyResultMessages)
    /\ [][ScanAnswer =>
             /\ step' = "match" => videos' # <<>>
             /\ videos' = <<>> =>
                   /\ step' = "scan"
                   /\ status'.kind = "scanError"
         ]_vars

\* a Facebook scan whose items were all filtered out ended as a failure
C16_Witness ==
    /\ nScans = 1 /\ scan = "idle"
    /\ status = Status("scanError", 0, 0, MsgNoPosts)
    /\ step = "scan" /\ videos = <<>>

\* the transcription calls in flight: the main loop's and the retries'
TranscriberCalls ==
    (IF loop.pc = "transcribe" THEN 1 ELSE 0)
    + Cardinality({r \in retries : r.pc = "transcribe"})

\* C17: at no time are two transcription calls in flight
C17_AtMostOneTranscriberCall ==
    TranscriberCalls <= 1

\* C18: a per-item retry and a pass of the main loop are never in flight
\* together
C18_RetryAndLoopNeverTogether ==
    ~(loop.pc # "idle" /\ retries # {})

\* the credentials of the transcription calls in flight
KeysInFlight ==
    (IF loop.pc = "transcribe" THEN {loop.googleApiKey} ELSE {})
    \cup {r.googleApiKey : r \in {q \in retries : q.pc = "transcribe"}}

\* C19: with an empty credential transcribeAudioWithGemini rejects with the
\* credential-required error whatever the AI service would have answered, no
\* call with an empty credential is ever in flight, and where the main loop's
\* download answers under an empty credential the item is in error with that
\* message in the same step.
C19_MissingCredentialRejectsBeforeAnyCall ==
    /\ [](/\ \A outcome \in AiOutcomes(AiFailures \cup MarkedAiFailures) :
               transcribeAudioWithGemini("", outcome) = Failed(MsgKeyRequired)
          /\ \A key \in KeysInFlight : Truthy(key))
    /\ [][(LoopRecords("downloaded") /\ ~Truthy(loop.googleApiKey)) =>
             /\ loop'.pc # "transcribe"
             /\ transcriptStates'[loop.videosToProcess[loop.i].webVideoUrl]
                    = Error(ErrorText(MsgKeyRequired))
         ]_vars

\* a run started with the credential cleared: the download of its item
\* succeeded and the item is in error with the credential-required message
C19_Witness ==
    /\ googleApiKey = ""
    /\ \E p \in 1..Len(log) :
          /\ log[p].ev = "downloaded"
          /\ log[p].url \in DOMAIN transcriptStates
          /\ transcriptStates[log[p].url] = Error(ErrorText(MsgKeyRequired))

\* the markers of the claim, spelled out in every case the messages come in
QuotaMarkers == {"429", "rate limit", "quota", "Quota"}
InvalidKeyMarkers == {"API_KEY_INVALID", "Api_Key_Invalid", "400"}
HasMarker(message, markers) == \E p \in 1..Len(message) : message[p] \in markers

\* what the caller sees of a call that failed with the message
Surfaced(message) ==
    transcribeAudioWithGemini("k", [threw |-> TRUE, text |-> "", message |-> message])

\* C20: a failure whose message carries a quota marker surfaces as the quota
\* error, also where it carries an invalid-key marker as well; the quota error
\* differs in content from the invalid-key error and from what a message
\* without a quota marker surfaces as; and an item comes to show the quota
\* error only in the step in which a transcription call for it answers.
C20_QuotaErrorIsSpecificAndComesFirst ==
    /\ [](/\ \A message \in TranscriberFailures :
               HasMarker(message, QuotaMarkers) => Surfaced(message) = Failed(MsgQuota)
          /\ \A message \in TranscriberFailures :
               ~HasMarker(message, QuotaMarkers) =>
                   /\ ~Surfaced(message).ok
                   /\ Surfaced(message).text # MsgQuota
          /\ MsgQuota # MsgInvalidKey
          /\ \E message \in TranscriberFailures :
               /\ HasMarker(message, QuotaMarkers)
               /\ HasMarker(message, InvalidKeyMarkers)
          /\ \E message \in TranscriberFailures :
               /\ ~HasMarker(message, QuotaMarkers)
               /\ Surfaced(message) = Failed(MsgInvalidKey))
    /\ [][\A k \in DOMAIN transcriptStates' :
             (/\ transcriptStates'[k] = Error(ErrorText(MsgQuota))
              /\ (k \notin DOMAIN transcriptStates
                    \/ transcriptStates[k] # transcriptStates'[k]))
             => \/ /\ loop.pc = "transcribe"
                   /\ loop.videosToProcess[loop.i].webVideoUrl = k
                \/ \E r \in retries \ retries' :
                      r.pc = "transcribe" /\ r.video.webVideoUrl = k
         ]_vars

\* an item of a run whose transcription failed on the quota shows the quota error
C20_Witness ==
    \E p \in 1..Len(log) :
        /\ log[p].ev = "error"
        /\ log[p].url \in DOMAIN transcriptStates
        /\ transcriptStates[log[p].url] = Error(ErrorText(MsgQuota))

\* what the caller sees of a call that answered with an empty transcript
SurfacedEmpty ==
    transcribeAudioWithGemini("k", [threw |-> FALSE, text |-> "", message |-> <<>>])

\* the text the user reads for the key, or Null
ShownError(k) ==
    IF k \in DOMAIN transcriptStates /\ transcriptStates[k].status = "error"
    THEN transcriptStates[k].text
    ELSE Null

\* C21: a failure without a quota marker surfaces as the invalid-key error
\* where its message carries an invalid-key marker in any case or "400", and
\* with its own message otherwise, an empty transcript included; the three
\* kinds of error differ in content.
C21_InvalidKeyAndGenericErrors ==
    /\ \A message \in TranscriberFailures :
         (~HasMarker(message, QuotaMarkers) /\ HasMarker(message, InvalidKeyMarkers))
             => Surfaced(message) = Failed(MsgInvalidKey)
    /\ \A message \in TranscriberFailures :
         (~HasMarker(message, QuotaMarkers) /\ ~HasMarker(message, InvalidKeyMarkers))
             => /\ Surfaced(message) = Failed(Join(message))
                /\ Join(message) \notin {MsgQuota, MsgInvalidKey}
    /\ SurfacedEmpty = Failed(Join(MsgNoTranscript))
    /\ Join(MsgNoTranscript) \notin {MsgQuota, MsgInvalidKey}
    /\ MsgQuota # MsgInvalidKey
    /\ \A k \in DOMAIN transcriptStates :
         transcriptStates[k].status = "error" =>
             Cardinality({kind \in {MsgQuota, MsgInvalidKey, Join(MsgNoTranscript)} :
                             ShownError(k) = ErrorText(kind)}) <= 1

\* two items in error side by side: one on an invalid key, one on an empty
\* transcript
C21_Witness ==
    \E k1, k2 \in DOMAIN transcriptStates :
        /\ ShownError(k1) = ErrorText(MsgInvalidKey)
        /\ ShownError(k2) = ErrorText(Join(MsgNoTranscript))

\* the shape of a normalized record: its properties, and those of its objects
SocialVideoProps ==
    {"id", "webVideoUrl", "text", "createTime", "createTimeISO", "authorMeta",
     "diggCount", "commentCount", "shareCount", "playCount", "videoMeta", "musicMeta"}
ObjectProps(f) ==
    CASE f = "authorMeta" -> {"name", "nickName", "avatar"}
      [] f = "videoMeta" -> {"duration", "height", "width"}
      [] f = "musicMeta" -> {"musicName", "musicAuthor", "musicOriginal"}
      [] OTHER -> {}
Defined(x) == x.t \in {"number", "string", "boolean"}

\* every property of the record is there and holds a value
FullyDefined(v) ==
    /\ DOMAIN v = SocialVideoProps
    /\ v.id # Null /\ v.webVideoUrl # Null
    /\ \A f \in SocialVideoProps \ {"id", "webVideoUrl"} :
          IF ObjectProps(f) = {} THEN Defined(v[f])
          ELSE /\ DOMAIN v[f] = ObjectProps(f)
               /\ \A g \in ObjectProps(f) : Defined(v[f][g])

At(x, path) == IF Len(path) = 1 THEN x[path[1]] ELSE x[path[1]][path[2]]
Absent(item, path) ==
    \/ path[1] \notin DOMAIN item
    \/ Len(path) = 2 /\ path[2] \notin DOMAIN item[path[1]]

\* the documented defaults: the raw property, the property of the record it
\* feeds, and the value the record has where the raw property is absent
TikTokDefaults ==
    { <<<<"text">>, <<"text">>, Str("")>>,
      <<<<"diggCount">>, <<"diggCount">>, Num(0)>>,
      <<<<"commentCount">>, <<"commentCount">>, Num(0)>>,
      <<<<"shareCount">>, <<"shareCount">>, Num(0)>>,
      <<<<"playCount">>, <<"playCount">>, Num(0)>>,
      <<<<"videoMeta", "duration">>, <<"videoMeta", "duration">>, Num(0)>>,
      <<<<"videoMeta", "height">>, <<"videoMeta", "height">>, Num(0)>>,
      <<<<"videoMeta", "width">>, <<"videoMeta", "width">>, Num(0)>>,
      <<<<"musicMeta", "musicName">>, <<"musicMeta", "musicName">>, Str("N/A")>>,
      <<<<"musicMeta", "musicAuthor">>, <<"musicMeta", "musicAuthor">>, Str("N/A")>>,
      <<<<"musicMeta", "musicOriginal">>, <<"musicMeta", "musicOriginal">>, Bool(FALSE)>> }
FacebookDefaults ==
    { <<<<"message">>, <<"text">>, Str("")>>,
      <<<<"reactions_count">>, <<"diggCount">>, Num(0)>>,
      <<<<"comments_count">>, <<"commentCount">>, Num(0)>>,
      <<<<"shares_count">>, <<"shareCount">>, Num(0)>>,
      <<<<"views_count">>, <<"playCount">>, Num(0)>>,
      <<<<"playable_duration_in_ms">>, <<"videoMeta", "duration">>, Num(0)>>,
      <<<<"playback_video_height">>, <<"videoMeta", "height">>, Num(0)>>,
      <<<<"playback_video_width">>, <<"videoMeta", "width">>, Num(0)>>,
      <<<<"track_title">>, <<"musicMeta", "musicName">>, Str("N/A")>>,
      <<<<"video_owner_name">>, <<"musicMeta", "musicAuthor">>, Str("N/A")>>,
      <<<<"is_original_audio_on_facebook">>, <<"musicMeta", "musicOriginal">>,
        Bool(FALSE)>> }

HasDefaults(item, v, defaults) ==
    \A d \in defaults : Absent(item, d[1]) => At(v, d[2]) = d[3]

\* the mapper of the platform gives a fully defined record with the documented
\* defaults for every raw item, whichever of its optional properties are absent
MapperDefaults(platform) ==
    IF platform = "tiktok"
    THEN \A item \in ItemsOfEveryShape(TikTokFull) \cup TikTokItems :
            LET v == mapTikTokItemToSocialVideo(item, 1)
            IN FullyDefined(v) /\ HasDefaults(item, v, TikTokDefaults)
    ELSE \A item \in ItemsOfEveryShape(FacebookFull) \cup FacebookItems :
            LET v == mapFacebookItemToSocialVideo(item)
            IN FullyDefined(v) /\ HasDefaults(item, v, FacebookDefaults)

\* C22: for every raw item of either platform, whichever of its optional
\* properties are absent, the normalized record has every property defined and
\* the documented default for each absent one; and every record of the video
\* list is fully defined.
C22_MissingFieldsGetDefaults ==
    /\ MapperDefaults("tiktok")
    /\ MapperDefaults("facebook")
    /\ [](\A n \in Indices(videos) : FullyDefined(videos[n]))

\* the list after the scan of a Facebook page whose one item had none of its
\* optional properties
C22_Witness ==
    /\ step = "match" /\ Len(videos) = 1
    /\ videos[1].createTime = Num(DateNow)
    /\ videos[1].text = Str("")
    /\ videos[1].playCount = Num(0)
    /\ videos[1].videoMeta = [duration |-> Num(0), height |-> Num(0), width |-> Num(0)]
    /\ videos[1].musicMeta = [musicName |-> Str("N/A"), musicAuthor |-> Str("N/A"),
                              musicOriginal |-> Bool(FALSE)]

\* C23: the list that the answer of a Facebook scan leaves is made of the
\* items that passed the filter: it is not empty, and every record in it has a
\* non-empty id and a non-empty webVideoUrl.
C23_FacebookRecordsHaveIdAndUrl ==
    [][(scan = "facebook" /\ ScanAnswer /\ step' = "match") =>
          /\ videos' # <<>>
          /\ \A n \in Indices(videos') :
                /\ videos'[n].id \notin {Null, ""}
                /\ videos'[n].webVideoUrl \notin {Null, ""}
      ]_vars

\* the '@' segments of the text as typed, split at "/"
AtSegments(url) == SelectSeq(Split(Trim(url), "/"), StartsWithAt)

\* C24: the handle of a TikTok scan is the last segment of the channel URL
\* that begins with '@', without the '@'; where no segment does, it is the
\* trimmed input, without a leading '@'.
C24_HandleIsLastAtSegment ==
    [][(ScanClick /\ scan' = "tiktok") =>
          profileName(channelUrl) =
              IF AtSegments(channelUrl) # <<>> THEN Tail(Last(AtSegments(channelUrl)))
              ELSE Trim(channelUrl)
      ]_vars

\* C25: the ids of the records of the video list are pairwise distinct
C25_IdsAreDistinctWithinAScan ==
    \A n, m \in Indices(videos) : n # m => videos[n].id # videos[m].id

\* C26: when a run with eligible items ends, the status left behind is the
\* completion report or the stopped-by-user report, and carries the number of
\* items that succeeded in the run.
C26_RunEndsWithACount ==
    [][RunEnds =>
          /\ status'.kind \in {"done", "stopped"}
          /\ status'.n = Cardinality(Successes')
      ]_vars

\* C27: no key with a cached transcript has per-video status loading or error
C27_CachedKeysAreNotLoadingOrError ==
    \A k \in DOMAIN transcriptCache :
        (Truthy(transcriptCache[k]) /\ k \in DOMAIN transcriptStates)
            => transcriptStates[k].status \notin {"loading", "error"}

\* C28: every key of the per-video state map is the webVideoUrl of a video of
\* the current list
C28_StateKeysBelongToTheList ==
    DOMAIN transcriptStates \subseteq {videos[n].webVideoUrl : n \in Indices(videos)}

\* a pass of the main loop is under way
PassActive == loop.pc # "idle"

\* C29: while a pass of the main loop is under way the processing flag is set
\* and the stage is the results stage, and no step changes the stage, the video
\* list or the audio assignments, or starts a scan or another pass.
C29_NothingMovesDuringAPass ==
    /\ [](PassActive => (isProcessing /\ step = "results"))
    /\ [][PassActive =>
             /\ step' = "results"
             /\ videos' = videos
             /\ mp3Links' = mp3Links
             /\ nScans' = nScans
             /\ nRuns' = nRuns
         ]_vars

\* the second item of a pass is being transcribed, with assignments in place
C29_Witness ==
    /\ loop.pc = "transcribe" /\ loop.i = 2
    /\ step = "results" /\ isProcessing
    /\ Len(videos) = 2
    /\ \A n \in Indices(videos) : Truthy(Get(mp3Links, videos[n].webVideoUrl))

\* every eligible item of the run has been attempted and has its outcome
AllAttempted ==
    \A j \in 1..NEligible :
        \E p, q \in Indices(log) :
            /\ p < q
            /\ log[p] = Ev("start", j, KeyOf(j))
            /\ log[q].idx = j /\ log[q].ev \in {"success", "error"}

\* C30: the start of a run clears the stop flag, whatever the run before left
\* in it, and a run that ends with no stop requested has attempted every one of
\* its eligible items.
C30_StopDoesNotReachTheNextRun ==
    /\ [][(nRuns' = nRuns + 1) => ~stopRequest']_vars
    /\ [][(RunEnds /\ ~stopRequest) => AllAttempted']_vars

\* a second run has started on its first item: it found the stop flag of the
\* run before still set, and the flag is clear
C30_Witness ==
    /\ nRuns = 2 /\ pre.stop
    /\ isProcessing /\ loop.pc = "download" /\ loop.i = 1
    /\ ~stopRequest

\* the videos a scan of SpecLive can put in the list
LiveVideos ==
    UNION {{fetchTikTokData(response, 0).videos[n] :
                n \in Indices(fetchTikTokData(response, 0).videos)} :
           response \in LiveResponses}
RetryInFlight(v) == \E r \in retries : r.video = v
Settled(url) ==
    /\ url \in DOMAIN transcriptStates
    /\ transcriptStates[url].status \in {"success", "error"}
\* the early return of handleRetry: no audio URL for the row, error written
RetryRefused ==
    /\ UNCHANGED <<retries, retryingIds>>
    /\ \E n \in Indices(videos) :
           /\ ~Truthy(Get(mp3Links, videos[n].webVideoUrl))
           /\ transcriptStates'[videos[n].webVideoUrl] = Error(TextNoMp3)

\* C31: when every external call settles, what is started ends.  A scan click
\* either fails at once with the processing flag clear or leaves a request in
\* flight, and a scan in flight leads to no scan in flight and the flag clear.
\* A start click either ends at once with the flag clear or leaves a run in
\* flight, and a run in flight leads to no run in flight and the flag clear.
\* A retry click either writes error at once or leaves a retry in flight, and a
\* retry in flight leads to its id out of the retrying set with the status of
\* its video success or error.
C31_StartedWorkEnds ==
    /\ [][ScanClick => (scan' # "idle" \/ ~isProcessing')]_vars
    /\ (scan # "idle") ~> (scan = "idle" /\ ~isProcessing)
    /\ [][(nRuns' = nRuns + 1) => (loop'.pc # "idle" \/ ~isProcessing')]_vars
    /\ (loop.pc # "idle") ~> (loop.pc = "idle" /\ ~isProcessing)
    /\ [][RetryClick =>
            \/ \E r \in retries' \ retries : r.video.id \in retryingIds'
            \/ RetryRefused]_vars
    /\ \A v \in LiveVideos :
           RetryInFlight(v) ~> (v.id \notin retryingIds /\ Settled(v.webVideoUrl))

\* a scan, a run and a retry have all ended: both videos are cached after one
\* run and one retry, so the retry, which starts on a video in error that is
\* not cached, was in flight and cached its video
C31_Witness ==
    /\ nScans = 1 /\ scan = "idle"
    /\ nRuns = 1 /\ loop.pc = "idle" /\ ~isProcessing
    /\ nRetries = 1 /\ retries = {} /\ retryingIds = {}
    /\ DOMAIN transcriptCache = {"a", "b"}
    /\ Settled("a") /\ Settled("b")

\* rows of the list that are different videos
OtherVideo(n, m) == videos[n].id # videos[m].id
Assigned(links, n) == Get(links, videos[n].webVideoUrl)
Cached(cache, n) == Get(cache, videos[n].webVideoUrl)
Shown(ts, n) == Get(ts, videos[n].webVideoUrl)

\* C32: the join key tells the videos of a list apart.  Two different videos
\* of the list never have the same key, and so, while the list stays as it is,
\* no step changes the audio assignment of two different videos, and no step
\* changes what is shown or what is cached for two different videos.
C32_JoinKeySeparatesVideos ==
    /\ [](\A n, m \in Indices(videos) :
              OtherVideo(n, m) => videos[n].webVideoUrl # videos[m].webVideoUrl)
    /\ [][videos' = videos /\ step' = step =>
            \A n, m \in Indices(videos) :
                OtherVideo(n, m) =>
                    /\ \/ Assigned(mp3Links', n) = Assigned(mp3Links, n)
                       \/ Assigned(mp3Links', m) = Assigned(mp3Links, m)
                    /\ \/ Cached(transcriptCache', n) = Cached(transcriptCache, n)
                       \/ Cached(transcriptCache', m) = Cached(transcriptCache, m)
                    /\ \/ Shown(transcriptStates', n) = Shown(transcriptStates, n)
                       \/ Shown(transcriptStates', m) = Shown(transcriptStates, m)]_vars

====
